---- MODULE Spec2Model ----
(***************************************************************************)
(* Model of langgraph-service/app.py: the three workflow nodes             *)
(* (analyze_requirements, create_plan, execute_tasks), the compiled linear *)
(* graph, and the HTTP handlers start_workflow, continue_workflow,         *)
(* get_workflow_status and list_workflows over the Redis cache (fast tier) *)
(* and the MongoDB workflows collection (durable tier).                    *)
(*                                                                         *)
(* Handlers are coroutines: every await (the LLM call of a node, a MongoDB *)
(* operation) is a point where another request may run, so each handler is *)
(* a sequence of steps of one of the request slots in Procs.               *)
(*                                                                         *)
(* Optional values (a dict key that may be missing, None) are sets with at *)
(* most one element: {} is "missing", {v} is "present with value v".       *)
(***************************************************************************)
EXTENDS Integers, Sequences, FiniteSets, TLC

VARIABLES now, fast, durable, call, calls

vars == <<now, fast, durable, call, calls>>

(* ------------------------------ bounds --------------------------------- *)
\* Requests (start, continue, get, list) received in one behaviour.
MaxCalls == 2
\* Clock advances in one behaviour: each is one second (Tick) or one cache
\* lifetime (Wait).
MaxAdvances == 1
\* Documents in a seeded collection; largest offset and limit of a listing.
MaxDocs == 3
MaxPage == 2
\* Tasks in a task list handed to execute_tasks on its own.
MaxTasks == 4

(* --------------------------- program constants ------------------------- *)
FastTTL == 3600
NumTasks == 5
BatchLimit == 2
PoolSize == 3

Procs == {1, 2}
ProjectIds == {"p1"}
Requirements == {<<"a", ".", "b">>}
RequestContexts == {{}, {"u"}}

Min(a, b) == IF a < b THEN a ELSE b

\* int(datetime.now().timestamp()): clock readings are whole seconds.
Sec(t) == t

(* ------------------------------ ProjectState --------------------------- *)
EmptyContext == [analysis |-> {}, plan |-> {}, execution |-> {}, user |-> {}]

NewProjectState(pid, req, ctx, t) ==
    [project_id |-> pid, requirements |-> req, status |-> "draft",
     current_phase |-> "analyzing", tasks |-> <<>>, errors |-> <<>>,
     context |-> [EmptyContext EXCEPT !.user = ctx],
     metadata |-> [project_type |-> "web_application", priority |-> "medium",
                   deadline |-> {}, created_at |-> t]]

BlankState == NewProjectState("", <<>>, {}, 0)

\* str.split("."): the pieces between the dots, empty pieces included.
RECURSIVE SplitDot(_, _)
SplitDot(s, cur) ==
    IF s = <<>> THEN <<cur>>
    ELSE IF Head(s) = "." THEN <<cur>> \o SplitDot(Tail(s), <<>>)
    ELSE SplitDot(Tail(s), Append(cur, Head(s)))

Analysis(req) ==
    [complexity |-> 7, features |-> SplitDot(req, <<>>), estimated_hours |-> 160]

Plan == [total_tasks |-> 23, estimated_duration |-> "8 weeks"]

(* ------------------------------ workflow nodes ------------------------- *)
\* analyze_requirements starting the errors list afresh when it succeeds.
analyze_requirements_clears_errors(state, ok) ==
    IF ok
    THEN [state EXCEPT !.context.analysis = {Analysis(state.requirements)},
                       !.status = "analyzed",
                       !.current_phase = "planning",
                       !.errors = <<>>]
    ELSE [state EXCEPT !.errors = Append(@, "Analysis failed: e"),
                       !.status = "failed"]

\* analyze_requirements with the except branch recording the error but not
\* setting status = "failed".
analyze_requirements_keeps_status(state, ok) ==
    IF ok
    THEN [state EXCEPT !.context.analysis = {Analysis(state.requirements)},
                       !.status = "analyzed",
                       !.current_phase = "planning"]
    ELSE [state EXCEPT !.errors = Append(@, "Analysis failed: e")]

\* ok: whether llm.ainvoke returned (TRUE) or raised (FALSE).
analyze_requirements(state, ok) ==
    IF ok
    THEN [state EXCEPT !.context.analysis = {Analysis(state.requirements)},
                       !.status = "analyzed",
                       !.current_phase = "planning"]
    ELSE [state EXCEPT !.errors = Append(@, "Analysis failed: e"),
                       !.status = "failed"]

NewTask(i) == [id |-> i, status |-> "pending", assigned_agent |-> {}]

\* create_plan building the task list only when the state has none yet.
create_plan_keeps_tasks(state, ok) ==
    IF state.status = "failed" THEN state
    ELSE IF ok
    THEN [state EXCEPT !.tasks = IF @ = <<>>
                                 THEN [i \in 1..NumTasks |-> NewTask(i)]
                                 ELSE @,
                       !.context.plan = {Plan},
                       !.status = "planned",
                       !.current_phase = "development"]
    ELSE [state EXCEPT !.errors = Append(@, "Planning failed: e"),
                       !.status = "failed"]

\* create_plan without its early return on a failed state.
create_plan_unguarded(state, ok) ==
    IF ok
    THEN [state EXCEPT !.tasks = [i \in 1..NumTasks |-> NewTask(i)],
                       !.context.plan = {Plan},
                       !.status = "planned",
                       !.current_phase = "development"]
    ELSE [state EXCEPT !.errors = Append(@, "Planning failed: e"),
                       !.status = "failed"]

\* create_plan building one task fewer than range(5) gives.
create_plan_one_short(state, ok) ==
    IF state.status = "failed" THEN state
    ELSE IF ok
    THEN [state EXCEPT !.tasks = [i \in 1..(NumTasks - 1) |-> NewTask(i)],
                       !.context.plan = {Plan},
                       !.status = "planned",
                       !.current_phase = "development"]
    ELSE [state EXCEPT !.errors = Append(@, "Planning failed: e"),
                       !.status = "failed"]

create_plan(state, ok) ==
    IF state.status = "failed" THEN state
    ELSE IF ok
    THEN [state EXCEPT !.tasks = [i \in 1..NumTasks |-> NewTask(i)],
                       !.context.plan = {Plan},
                       !.status = "planned",
                       !.current_phase = "development"]
    ELSE [state EXCEPT !.errors = Append(@, "Planning failed: e"),
                       !.status = "failed"]

RECURSIVE AssignLoopOneMore(_, _, _)
\* The loop breaking only once executed_tasks exceeds the batch limit.
AssignLoopOneMore(tasks, i, n) ==
    IF i > Len(tasks) THEN [tasks |-> tasks, executed |-> n]
    ELSE IF tasks[i].status = "pending"
    THEN LET t2 == [tasks EXCEPT ![i].status = "assigned",
                                 ![i].assigned_agent = {(n % PoolSize) + 1}]
         IN IF n + 1 > BatchLimit
            THEN [tasks |-> t2, executed |-> n + 1]
            ELSE AssignLoopOneMore(t2, i + 1, n + 1)
    ELSE AssignLoopOneMore(tasks, i + 1, n)

\* The loop of execute_tasks over tasks[i..]: n is executed_tasks so far.
RECURSIVE AssignLoop(_, _, _)
AssignLoop(tasks, i, n) ==
    IF i > Len(tasks) THEN [tasks |-> tasks, executed |-> n]
    ELSE IF tasks[i].status = "pending"
    THEN LET t2 == [tasks EXCEPT ![i].status = "assigned",
                                 ![i].assigned_agent = {(n % PoolSize) + 1}]
         IN IF n + 1 >= BatchLimit
            THEN [tasks |-> t2, executed |-> n + 1]
            ELSE AssignLoop(t2, i + 1, n + 1)
    ELSE AssignLoop(tasks, i + 1, n)

execute_tasks(state, t) ==
    IF state.status = "failed" THEN state
    ELSE LET r == AssignLoop(state.tasks, 1, 0)
         IN [state EXCEPT !.tasks = r.tasks,
                          !.context.execution =
                              {[tasks_assigned |-> r.executed,
                                agents_used |-> Min(PoolSize, r.executed),
                                start_time |-> t]},
                          !.status = "executing",
                          !.current_phase = "development"]

(* ------------------------------ the two tiers -------------------------- *)
\* f"workflow_{project_id}_{int(timestamp)}"
WorkflowId(pid, t) == [project |-> pid, sec |-> Sec(t)]

\* json.dumps(result, default=str) / json.loads: every value of a state is a
\* str, an int, None, a list or a dict with str keys, which JSON carries as is.
JsonDumps(state) == [json |-> state]
JsonLoads(text) == text.json

\* redis setex(key, FastTTL, value): replaces the key's entry.
Setex(cache, key, value, t) ==
    {e \in cache : e.key # key}
        \cup {[key |-> key, value |-> value, expires |-> Sec(t) + FastTTL]}

\* redis get(key): the value, unless missing or past its time to live.
RedisGet(cache, key, t) ==
    {e.value : e \in {x \in cache : x.key = key /\ Sec(t) < x.expires}}

\* Positions of the documents matching {"workflow_id": wid}.
Matching(coll, wid) == {i \in 1..Len(coll) : coll[i].workflow_id = wid}

\* find_one({"workflow_id": wid}): one matching document, if any. The
\* collection has no unique index and the query no sort, so with several
\* matches the one returned is the server's choice.
FindOne(coll, wid) == {coll[i] : i \in Matching(coll, wid)}

\* The replies get_workflow_status can give for wid when it runs alone on
\* these tiers at clock reading t; the empty set is the 404.
GetReply(cache, coll, wid, t) ==
    IF RedisGet(cache, wid, t) # {}
    THEN {JsonLoads(v) : v \in RedisGet(cache, wid, t)}
    ELSE {d.state : d \in FindOne(coll, wid)}

\* How many Tick and Wait steps led to clock reading t.
Advances(t) == (t \div FastTTL) + (t % FastTTL)

\* Entries still alive at clock reading t (Redis drops a key at its expiry).
Alive(cache, t) == {e \in cache : Sec(t) < e.expires}

NewRecord(wid, pid, state, t) ==
    [workflow_id |-> wid, project_id |-> pid, state |-> state,
     created_at |-> t, updated_at |-> t]

(* ------------------------------ listing -------------------------------- *)
RECURSIVE Orders(_)
\* Every order of the positions in S.
Orders(S) ==
    IF S = {} THEN {<<>>}
    ELSE UNION {{<<i>> \o o : o \in Orders(S \ {i})} : i \in S}

\* The collection delivered oldest first.
SortedAsc(coll) ==
    {o \in Orders(1..Len(coll)) :
        \A k \in 1..(Len(o) - 1) :
            coll[o[k]].created_at <= coll[o[k + 1]].created_at}

\* find().sort("created_at", -1): the orders of the positions with created_at
\* never increasing; documents of equal created_at come in either order.
SortedDesc(coll) ==
    {o \in Orders(1..Len(coll)) :
        \A k \in 1..(Len(o) - 1) :
            coll[o[k]].created_at >= coll[o[k + 1]].created_at}

\* .skip(offset).limit(limit) and to_list(length=limit) on the documents taken
\* in order o, for offset >= 0 and limit >= 0 (to_list(0) delivers nothing).
ListPage(coll, o, offset, limit) ==
    SubSeq([k \in 1..Len(o) |-> coll[o[k]]], offset + 1,
           Min(offset + limit, Len(o)))

(* ------------------------------ request slots -------------------------- *)
NoWid == [project |-> "", sec |-> 0]

\* pc: where the handler is; kind, wid: the request; state: the ProjectState
\* in hand (after the return: the state of the 200 response); stamp: the
\* updated_at read for update_one; code: the HTTP status of the response;
\* fault: the I/O operation that raised; at: the pc the handler ended at;
\* wrote: the tiers this call has written; ran: the nodes invoked, in order;
\* page: what list_workflows has fetched (after the return: its response).
NoPage == [workflows |-> <<>>, total |-> 0, offset |-> 0, limit |-> 0]

IdleCall ==
    [pc |-> "idle", kind |-> "none", wid |-> NoWid, state |-> BlankState,
     stamp |-> 0, code |-> "none", fault |-> "none", at |-> "none",
     wrote |-> {}, ran |-> <<>>, page |-> NoPage]

\* Ids a caller may name: those issued so far, and ones never issued.
WorkflowIds ==
    {durable[i].workflow_id : i \in 1..Len(durable)} \cup {e.key : e \in fast}
        \cup {WorkflowId(pid, now) : pid \in ProjectIds}

\* The handler in record c returns with HTTP status code; only a 200 response
\* carries a state, an HTTPException carries none.
Return(c, code, fault) ==
    [c EXCEPT !.pc = "idle", !.code = code, !.fault = fault, !.at = c.pc,
              !.state = IF code = "200" THEN c.state ELSE BlankState,
              !.page = IF code = "200" THEN c.page ELSE NoPage]

Init ==
    /\ now = 0
    /\ fast = {}
    /\ durable = <<>>
    /\ call = [p \in Procs |-> IdleCall]
    /\ calls = 0

(* ------------------------------ the graph ------------------------------ *)
\* The graph with the edge analyze -> execute in place of analyze -> plan.
EdgeSkipsPlan(node) ==
    CASE node = "analyze" -> "execute"
      [] node = "plan" -> "execute"
      [] node = "execute" -> "END"

\* create_project_workflow: entry point analyze, edges analyze -> plan,
\* plan -> execute, execute -> END.
Edge(node) ==
    CASE node = "analyze" -> "plan"
      [] node = "plan" -> "execute"
      [] node = "execute" -> "END"

\* Where the handler goes on when the node has returned.
PcAfter(node, kind) ==
    IF Edge(node) # "END" THEN Edge(node)
    ELSE IF kind = "start" THEN "setex" ELSE "update"

\* Entry of start_workflow: the initial state, then the graph's entry node.
StartBegin(p, pid, req, ctx) ==
    /\ call[p].pc = "idle"
    /\ calls < MaxCalls
    /\ calls' = calls + 1
    /\ call' = [call EXCEPT ![p] =
                   [IdleCall EXCEPT !.pc = "analyze", !.kind = "start",
                                    !.state = NewProjectState(pid, req, ctx, now)]]
    /\ UNCHANGED <<now, fast, durable>>

\* Analyze with a checkpoint written to the cache as soon as the node returns.
AnalyzeCheckpoints(p, ok) ==
    /\ call[p].pc = "analyze"
    /\ call' = [call EXCEPT ![p].state = analyze_requirements(@, ok),
                            ![p].ran = Append(@, "analyze"),
                            ![p].pc = "plan"]
    /\ fast' = Setex(fast, WorkflowId(call[p].state.project_id, now),
                     JsonDumps(analyze_requirements(call[p].state, ok)), now)
    /\ UNCHANGED <<now, durable, calls>>

Analyze(p, ok) ==
    /\ call[p].pc = "analyze"
    /\ call' = [call EXCEPT ![p].state = analyze_requirements(@, ok),
                            ![p].ran = Append(@, "analyze"),
                            ![p].pc = PcAfter("analyze", call[p].kind)]
    /\ UNCHANGED <<now, fast, durable, calls>>

RunPlan(p, ok) ==
    /\ call[p].pc = "plan"
    /\ call' = [call EXCEPT ![p].state = create_plan(@, ok),
                            ![p].ran = Append(@, "plan"),
                            ![p].pc = PcAfter("plan", call[p].kind)]
    /\ UNCHANGED <<now, fast, durable, calls>>

RunExecute(p) ==
    /\ call[p].pc = "execute"
    /\ call' = [call EXCEPT ![p].state = execute_tasks(@, now),
                            ![p].ran = Append(@, "execute"),
                            ![p].pc = PcAfter("execute", call[p].kind)]
    /\ UNCHANGED <<now, fast, durable, calls>>

(* ------------------------------ start_workflow ------------------------- *)
\* ok: whether the Redis write returned (TRUE) or raised (FALSE).
StartSetex(p, ok) ==
    /\ call[p].pc = "setex"
    /\ LET wid == WorkflowId(call[p].state.project_id, now)
           c == [call[p] EXCEPT !.wid = wid]
       IN IF ok
          THEN /\ fast' = Setex(fast, wid, JsonDumps(call[p].state), now)
               /\ call' = [call EXCEPT ![p] =
                              [c EXCEPT !.pc = "insert",
                                        !.wrote = @ \cup {"fast"}]]
          ELSE /\ fast' = fast
               /\ call' = [call EXCEPT ![p] = Return(c, "500", "fast_write")]
    /\ UNCHANGED <<now, durable, calls>>

\* ok: whether insert_one returned (TRUE) or raised (FALSE).
StartInsert(p, ok) ==
    /\ call[p].pc = "insert"
    /\ IF ok
       THEN /\ durable' = Append(durable,
                              NewRecord(call[p].wid, call[p].state.project_id,
                                        call[p].state, now))
            /\ call' = [call EXCEPT ![p] =
                           Return([call[p] EXCEPT !.wrote = @ \cup {"durable"}],
                                  "200", "none")]
       ELSE /\ durable' = durable
            /\ call' = [call EXCEPT ![p] =
                           Return(call[p], "500", "durable_write")]
    /\ UNCHANGED <<now, fast, calls>>

(* ------------------------------ continue_workflow ---------------------- *)
\* ResumeBegin without the 404: an unknown id is continued from a fresh state.
ResumeBeginCreates(p, wid, ok) ==
    /\ call[p].pc = "idle"
    /\ calls < MaxCalls
    /\ calls' = calls + 1
    /\ LET c == [IdleCall EXCEPT !.kind = "resume", !.wid = wid]
       IN IF ~ok
          THEN call' = [call EXCEPT ![p] = Return(c, "500", "durable_read")]
          ELSE IF FindOne(durable, wid) = {}
          THEN call' = [call EXCEPT ![p] =
                           [c EXCEPT !.pc = "analyze",
                                     !.state = NewProjectState(wid.project,
                                                               <<>>, {}, now)]]
          ELSE \E d \in FindOne(durable, wid) :
                  call' = [call EXCEPT ![p] =
                              [c EXCEPT !.pc = "analyze", !.state = d.state]]
    /\ UNCHANGED <<now, fast, durable>>

\* ok: whether find_one returned (TRUE) or raised (FALSE).
ResumeBegin(p, wid, ok) ==
    /\ call[p].pc = "idle"
    /\ calls < MaxCalls
    /\ calls' = calls + 1
    /\ LET c == [IdleCall EXCEPT !.kind = "resume", !.wid = wid]
       IN IF ~ok
          THEN call' = [call EXCEPT ![p] = Return(c, "500", "durable_read")]
          ELSE IF FindOne(durable, wid) = {}
          THEN call' = [call EXCEPT ![p] = Return(c, "404", "none")]
          ELSE \E d \in FindOne(durable, wid) :
                  call' = [call EXCEPT ![p] =
                              [c EXCEPT !.pc = "analyze", !.state = d.state]]
    /\ UNCHANGED <<now, fast, durable>>

\* The update document is built (datetime.now() is read) before the await.
ResumeUpdate(p) ==
    /\ call[p].pc = "update"
    /\ call' = [call EXCEPT ![p].stamp = now, ![p].pc = "apply"]
    /\ UNCHANGED <<now, fast, durable, calls>>

\* ResumeApply replacing the whole document instead of setting two fields.
ResumeApplyReplaces(p, ok) ==
    /\ call[p].pc = "apply"
    /\ IF ~ok
       THEN /\ durable' = durable
            /\ call' = [call EXCEPT ![p] =
                           Return(call[p], "500", "durable_write")]
       ELSE /\ call' = [call EXCEPT ![p].pc = "rsetex",
                                    ![p].wrote = @ \cup {"durable"}]
            /\ IF Matching(durable, call[p].wid) = {}
               THEN durable' = durable
               ELSE \E i \in Matching(durable, call[p].wid) :
                       durable' = [durable EXCEPT ![i] =
                                      NewRecord(call[p].wid, durable[i].project_id,
                                                call[p].state, call[p].stamp)]
    /\ UNCHANGED <<now, fast, calls>>

\* update_one({"workflow_id": wid}, {"$set": {state, updated_at}}) takes
\* effect at the server; ok: whether it returned (TRUE) or raised (FALSE).
ResumeApply(p, ok) ==
    /\ call[p].pc = "apply"
    /\ IF ~ok
       THEN /\ durable' = durable
            /\ call' = [call EXCEPT ![p] =
                           Return(call[p], "500", "durable_write")]
       ELSE /\ call' = [call EXCEPT ![p].pc = "rsetex",
                                    ![p].wrote = @ \cup {"durable"}]
            /\ IF Matching(durable, call[p].wid) = {}
               THEN durable' = durable
               ELSE \E i \in Matching(durable, call[p].wid) :
                       durable' = [durable EXCEPT ![i].state = call[p].state,
                                                  ![i].updated_at = call[p].stamp]
    /\ UNCHANGED <<now, fast, calls>>

ResumeSetex(p, ok) ==
    /\ call[p].pc = "rsetex"
    /\ IF ok
       THEN /\ fast' = Setex(fast, call[p].wid, JsonDumps(call[p].state), now)
            /\ call' = [call EXCEPT ![p] =
                           Return([call[p] EXCEPT !.wrote = @ \cup {"fast"}],
                                  "200", "none")]
       ELSE /\ fast' = fast
            /\ call' = [call EXCEPT ![p] = Return(call[p], "500", "fast_write")]
    /\ UNCHANGED <<now, durable, calls>>

(* ------------------------------ get_workflow_status -------------------- *)
\* ok: whether the Redis read returned (TRUE) or raised (FALSE).
GetBegin(p, wid, ok) ==
    /\ call[p].pc = "idle"
    /\ calls < MaxCalls
    /\ calls' = calls + 1
    /\ LET c == [IdleCall EXCEPT !.kind = "get", !.wid = wid]
       IN IF ~ok
          THEN call' = [call EXCEPT ![p] = Return(c, "500", "fast_read")]
          ELSE IF RedisGet(fast, wid, now) # {}
          THEN \E v \in RedisGet(fast, wid, now) :
                  call' = [call EXCEPT ![p] =
                              Return([c EXCEPT !.state = JsonLoads(v)],
                                     "200", "none")]
          ELSE call' = [call EXCEPT ![p] = [c EXCEPT !.pc = "find"]]
    /\ UNCHANGED <<now, fast, durable>>

\* GetFind writing the document it found back to the cache.
GetFindRepopulates(p, ok) ==
    /\ call[p].pc = "find"
    /\ IF ~ok
       THEN /\ call' = [call EXCEPT ![p] = Return(call[p], "500", "durable_read")]
            /\ fast' = fast
       ELSE IF FindOne(durable, call[p].wid) = {}
       THEN /\ call' = [call EXCEPT ![p] = Return(call[p], "404", "none")]
            /\ fast' = fast
       ELSE \E d \in FindOne(durable, call[p].wid) :
               /\ call' = [call EXCEPT ![p] =
                              Return([call[p] EXCEPT !.state = d.state],
                                     "200", "none")]
               /\ fast' = Setex(fast, call[p].wid, JsonDumps(d.state), now)
    /\ UNCHANGED <<now, durable, calls>>

\* ok: whether find_one returned (TRUE) or raised (FALSE).
GetFind(p, ok) ==
    /\ call[p].pc = "find"
    /\ IF ~ok
       THEN call' = [call EXCEPT ![p] = Return(call[p], "500", "durable_read")]
       ELSE IF FindOne(durable, call[p].wid) = {}
       THEN call' = [call EXCEPT ![p] = Return(call[p], "404", "none")]
       ELSE \E d \in FindOne(durable, call[p].wid) :
               call' = [call EXCEPT ![p] =
                           Return([call[p] EXCEPT !.state = d.state],
                                  "200", "none")]
    /\ UNCHANGED <<now, fast, durable, calls>>

(* ------------------------------ list_workflows ------------------------- *)
\* ok: whether the find returned (TRUE) or raised (FALSE). skip() refuses a
\* negative offset and to_list() a negative length: the handler's except
\* turns either into a 500.
ListBegin(p, offset, limit, ok) ==
    /\ call[p].pc = "idle"
    /\ calls < MaxCalls
    /\ calls' = calls + 1
    /\ LET c == [IdleCall EXCEPT !.pc = "fetch", !.kind = "list"]
       IN IF ~ok
          THEN call' = [call EXCEPT ![p] = Return(c, "500", "durable_read")]
          ELSE IF offset < 0 \/ limit < 0
          THEN call' = [call EXCEPT ![p] = Return(c, "500", "bad_argument")]
          ELSE \E o \in SortedDesc(durable) :
                  call' = [call EXCEPT ![p] =
                              [c EXCEPT !.pc = "count",
                                        !.page = [workflows |-> ListPage(durable, o, offset, limit),
                                                  total |-> 0,
                                                  offset |-> offset,
                                                  limit |-> limit]]]
    /\ UNCHANGED <<now, fast, durable>>

\* ok: whether count_documents returned (TRUE) or raised (FALSE).
ListCount(p, ok) ==
    /\ call[p].pc = "count"
    /\ IF ~ok
       THEN call' = [call EXCEPT ![p] = Return(call[p], "500", "durable_read")]
       ELSE call' = [call EXCEPT ![p] =
                        Return([call[p] EXCEPT !.page.total = Len(durable)],
                               "200", "none")]
    /\ UNCHANGED <<now, fast, durable, calls>>

(* ------------------------------ environment ---------------------------- *)
\* The request is cancelled, or the worker dies, at an await.
Abort(p) ==
    /\ call[p].pc # "idle"
    /\ call' = [call EXCEPT ![p] = Return(call[p], "aborted", "none")]
    /\ UNCHANGED <<now, fast, durable, calls>>

\* One second passes.
Tick ==
    /\ Advances(now) < MaxAdvances
    /\ now' = now + 1
    /\ fast' = Alive(fast, now + 1)
    /\ UNCHANGED <<durable, call, calls>>

\* Nothing happens for FastTTL seconds.
Wait ==
    /\ Advances(now) < MaxAdvances
    /\ now' = now + FastTTL
    /\ fast' = Alive(fast, now + FastTTL)
    /\ UNCHANGED <<durable, call, calls>>

\* Values a caller passes as offset and as limit.
PageArgs == (0 - 1)..MaxPage

(* ------------------------------ specifications ------------------------- *)
\* The service: requests overlap at their awaits.
Next ==
    \/ \E p \in Procs, pid \in ProjectIds, req \in Requirements,
          ctx \in RequestContexts : StartBegin(p, pid, req, ctx)
    \/ \E p \in Procs, ok \in BOOLEAN : Analyze(p, ok)
    \/ \E p \in Procs, ok \in BOOLEAN : RunPlan(p, ok)
    \/ \E p \in Procs : RunExecute(p)
    \/ \E p \in Procs, ok \in BOOLEAN : StartSetex(p, ok)
    \/ \E p \in Procs, ok \in BOOLEAN : StartInsert(p, ok)
    \/ \E p \in Procs, wid \in WorkflowIds, ok \in BOOLEAN : ResumeBegin(p, wid, ok)
    \/ \E p \in Procs : ResumeUpdate(p)
    \/ \E p \in Procs, ok \in BOOLEAN : ResumeApply(p, ok)
    \/ \E p \in Procs, ok \in BOOLEAN : ResumeSetex(p, ok)
    \/ \E p \in Procs, wid \in WorkflowIds, ok \in BOOLEAN : GetBegin(p, wid, ok)
    \/ \E p \in Procs, ok \in BOOLEAN : GetFind(p, ok)
    \/ \E p \in Procs, offset \in PageArgs, limit \in PageArgs, ok \in BOOLEAN :
          ListBegin(p, offset, limit, ok)
    \/ \E p \in Procs, ok \in BOOLEAN : ListCount(p, ok)
    \/ \E p \in Procs : Abort(p)
    \/ Tick
    \/ Wait

Spec == Init /\ [][Next]_vars

\* One request at a time: a start, continue or get request is received only
\* when none is running.
NoneRunning == \A p \in Procs : call[p].pc = "idle"

NextSolo ==
    \/ \E pid \in ProjectIds, req \in Requirements, ctx \in RequestContexts :
          NoneRunning /\ StartBegin(1, pid, req, ctx)
    \/ \E ok \in BOOLEAN : Analyze(1, ok)
    \/ \E ok \in BOOLEAN : RunPlan(1, ok)
    \/ RunExecute(1)
    \/ \E ok \in BOOLEAN : StartSetex(1, ok)
    \/ \E ok \in BOOLEAN : StartInsert(1, ok)
    \/ \E wid \in WorkflowIds, ok \in BOOLEAN : NoneRunning /\ ResumeBegin(1, wid, ok)
    \/ ResumeUpdate(1)
    \/ \E ok \in BOOLEAN : ResumeApply(1, ok)
    \/ \E ok \in BOOLEAN : ResumeSetex(1, ok)
    \/ \E wid \in WorkflowIds, ok \in BOOLEAN : NoneRunning /\ GetBegin(1, wid, ok)
    \/ \E ok \in BOOLEAN : GetFind(1, ok)
    \/ Abort(1)
    \/ Tick
    \/ Wait

SpecSolo == Init /\ [][NextSolo]_vars

\* One graph pass run to its end at clock reading t.
Pass(state, a, b, t) ==
    execute_tasks(create_plan(analyze_requirements(state, a), b), t)

\* The tiers as one completed start_workflow at clock reading 0 leaves them;
\* the requests that follow are continue calls on that workflow, overlapping.
InitOverlap ==
    \E pid \in ProjectIds, req \in Requirements, ctx \in RequestContexts,
       a \in BOOLEAN, b \in BOOLEAN :
        LET s == Pass(NewProjectState(pid, req, ctx, 0), a, b, 0)
            wid == WorkflowId(pid, 0)
        IN /\ now = 0
           /\ fast = Setex({}, wid, JsonDumps(s), 0)
           /\ durable = <<NewRecord(wid, pid, s, 0)>>
           /\ call = [p \in Procs |-> IdleCall]
           /\ calls = 0

NextOverlap ==
    \/ \E p \in Procs, ok \in BOOLEAN :
          ResumeBegin(p, durable[1].workflow_id, ok)
    \/ \E p \in Procs, ok \in BOOLEAN : Analyze(p, ok)
    \/ \E p \in Procs, ok \in BOOLEAN : RunPlan(p, ok)
    \/ \E p \in Procs : RunExecute(p)
    \/ \E p \in Procs : ResumeUpdate(p)
    \/ \E p \in Procs, ok \in BOOLEAN : ResumeApply(p, ok)
    \/ \E p \in Procs, ok \in BOOLEAN : ResumeSetex(p, ok)
    \/ \E p \in Procs : Abort(p)
    \/ Tick
    \/ Wait

SpecOverlap == InitOverlap /\ [][NextOverlap]_vars

\* The documents completed start_workflow calls can have inserted by clock
\* reading 1, and the collections of at most MaxDocs of them. created_at is
\* read by the client before the insert is sent, so the insertion order need
\* not follow it.
SeedRecords ==
    {NewRecord(WorkflowId(pid, t), pid,
               Pass(NewProjectState(pid, req, {}, t), a, TRUE, t), t) :
        pid \in ProjectIds, req \in Requirements, a \in BOOLEAN, t \in 0..1}

SeedCollections == UNION {[1..n -> SeedRecords] : n \in 0..MaxDocs}

\* The cache is empty, or holds the state of a start_workflow whose insert_one
\* raised after its setex.
SeedCaches ==
    {{}} \cup {Setex({}, WorkflowId(pid, 1),
                     JsonDumps(Pass(NewProjectState(pid, req, {}, 1), TRUE, TRUE, 1)), 1) :
                  pid \in ProjectIds, req \in Requirements}

\* The store is listed by the last request of the behaviour.
InitList ==
    /\ now = 1
    /\ fast \in SeedCaches
    /\ durable \in SeedCollections
    /\ call = [p \in Procs |-> IdleCall]
    /\ calls = MaxCalls - 1

\* One list_workflows call on a store nothing else writes.
NextList ==
    \/ \E offset \in PageArgs, limit \in PageArgs, ok \in BOOLEAN :
          ListBegin(1, offset, limit, ok)
    \/ \E ok \in BOOLEAN : ListCount(1, ok)

SpecList == InitList /\ [][NextList]_vars

\* execute_tasks on its own: the node is handed a state of any status whose
\* task list is any list of at most MaxTasks tasks, pending, assigned or
\* completed.
TaskStatuses == {"pending", "assigned", "completed"}

SeedTask(i, st) ==
    [id |-> i, status |-> st,
     assigned_agent |-> IF st = "pending" THEN {} ELSE {PoolSize}]

SeedTaskLists ==
    UNION {{[i \in 1..n |-> SeedTask(i, f[i])] : f \in [1..n -> TaskStatuses]} :
              n \in 0..MaxTasks}

InitExecute ==
    \E pid \in ProjectIds, req \in Requirements, tl \in SeedTaskLists,
       st \in {"planned", "executing", "failed"} :
        /\ now = 0
        /\ fast = {}
        /\ durable = <<>>
        /\ call = [p \in Procs |->
                      IF p = 1
                      THEN [IdleCall EXCEPT
                               !.pc = "execute", !.kind = "resume",
                               !.wid = WorkflowId(pid, 0),
                               !.ran = <<"analyze", "plan">>,
                               !.state = [NewProjectState(pid, req, {}, 0) EXCEPT
                                             !.tasks = tl, !.status = st]]
                      ELSE IdleCall]
        /\ calls = 1

NextExecute == RunExecute(1)

SpecExecute == InitExecute /\ [][NextExecute]_vars

\* The tiers one second after completed start_workflow calls at clock reading
\* 0: one call for each of two projects, and possibly a second one for the
\* first project, which got the same workflow_id. The requests that follow
\* are continue calls on any of the workflows, one at a time.
OtherProjectIds == {"p2"}

InitResume ==
    \E pid \in ProjectIds, other \in OtherProjectIds, req \in Requirements,
       a \in BOOLEAN, twice \in BOOLEAN :
        LET s1 == Pass(NewProjectState(pid, req, {}, 0), a, TRUE, 0)
            s2 == Pass(NewProjectState(other, req, {}, 0), TRUE, TRUE, 0)
            s3 == Pass(NewProjectState(pid, req, {}, 0), TRUE, a, 0)
            r1 == NewRecord(WorkflowId(pid, 0), pid, s1, 0)
            r2 == NewRecord(WorkflowId(other, 0), other, s2, 0)
            r3 == NewRecord(WorkflowId(pid, 0), pid, s3, 0)
        IN /\ now = 1
           /\ durable = IF twice THEN <<r1, r2, r3>> ELSE <<r1, r2>>
           /\ fast = Setex(Setex({}, WorkflowId(pid, 0),
                                 JsonDumps(IF twice THEN s3 ELSE s1), 0),
                           WorkflowId(other, 0), JsonDumps(s2), 0)
           /\ call = [p \in Procs |-> IdleCall]
           /\ calls = 0

NextResume ==
    \/ \E i \in 1..Len(durable), ok \in BOOLEAN :
          NoneRunning /\ ResumeBegin(1, durable[i].workflow_id, ok)
    \/ \E ok \in BOOLEAN : Analyze(1, ok)
    \/ \E ok \in BOOLEAN : RunPlan(1, ok)
    \/ RunExecute(1)
    \/ ResumeUpdate(1)
    \/ \E ok \in BOOLEAN : ResumeApply(1, ok)
    \/ \E ok \in BOOLEAN : ResumeSetex(1, ok)

SpecResume == InitResume /\ [][NextResume]_vars

(* ------------------------------ properties ----------------------------- *)
StagePcs == {"analyze", "plan", "execute"}

Nodes == <<"analyze", "plan", "execute">>

\* Slot p's handler has just had a node of the graph return.
NodeStep(p) == call[p].pc \in StagePcs /\ call'[p].ran # call[p].ran

\* Slot p holds the 200 response of a start or continue request.
Persisted(p) ==
    /\ call[p].pc = "idle"
    /\ call[p].kind \in {"start", "resume"}
    /\ call[p].code = "200"

\* C1: a node invoked on a state whose status is "failed" returns it unchanged
\* (analyze, plan and execute alike), so no node resets a failed status.
C1_FailedIsPassThrough ==
    [][\A p \in Procs :
          (NodeStep(p) /\ call[p].state.status = "failed")
              => call'[p].state = call[p].state]_vars

Occurs(m, errs) == \E k \in 1..Len(errs) : errs[k] = m

\* C2: a continue call on a workflow persisted as "failed" leaves the persisted
\* status failed, leaves tasks, context and current_phase as they were, and
\* appends no error message the record already holds.
C2_ResumeIdempotentOnFailed ==
    [][\A i \in 1..Len(durable) :
          durable[i].state.status = "failed" =>
              LET a == durable[i].state
                  b == durable'[i].state
              IN /\ b.status = "failed"
                 /\ b.tasks = a.tasks
                 /\ b.context = a.context
                 /\ b.current_phase = a.current_phase
                 /\ \/ b.errors = a.errors
                    \/ /\ Len(b.errors) = Len(a.errors) + 1
                       /\ SubSeq(b.errors, 1, Len(a.errors)) = a.errors
                       /\ ~Occurs(b.errors[Len(b.errors)], a.errors)]_vars

Rank(status) ==
    CASE status = "draft" -> 0
      [] status = "analyzed" -> 1
      [] status = "planned" -> 2
      [] status = "executing" -> 3
      [] OTHER -> 4

\* C3: at every node boundary of every pass, of a start or of a continue, the
\* status does not move backwards in draft < analyzed < planned < executing.
C3_StatusNeverRegresses ==
    [][\A p \in Procs :
          (NodeStep(p) /\ call[p].state.status # "failed"
                       /\ call'[p].state.status # "failed")
              => Rank(call'[p].state.status) >= Rank(call[p].state.status)]_vars

\* The pass of slot p is over: the handler is persisting, or has answered 200.
PassOver(p) ==
    \/ call[p].pc \in {"setex", "insert"}
    \/ call[p].pc = "idle" /\ call[p].code = "200"

\* C4: a start runs analyze, plan, execute once each in that order and then
\* stops; its final status is "executing" (every node did its work: analysis,
\* plan, execution summary and the task list are there, no error recorded) or
\* "failed" (with an error recorded).
C4_StartRunsEachStageOnce ==
    \A p \in Procs :
        call[p].kind = "start" =>
            /\ Len(call[p].ran) <= Len(Nodes)
            /\ call[p].ran = SubSeq(Nodes, 1, Len(call[p].ran))
            /\ call[p].pc \in StagePcs =>
                   Len(call[p].ran) < Len(Nodes)
                       /\ call[p].pc = Nodes[Len(call[p].ran) + 1]
            /\ PassOver(p) =>
                   /\ call[p].ran = Nodes
                   /\ call[p].state.status \in {"executing", "failed"}
                   /\ call[p].state.status = "executing" =>
                          /\ call[p].state.context.analysis # {}
                          /\ call[p].state.context.plan # {}
                          /\ call[p].state.context.execution # {}
                          /\ Len(call[p].state.tasks) = NumTasks
                          /\ call[p].state.errors = <<>>
                   /\ call[p].state.status = "failed" =>
                          Len(call[p].state.errors) = 1

C4_Witness ==
    \E p \in Procs :
        /\ call[p].kind = "start"
        /\ call[p].pc = "idle"
        /\ call[p].code = "200"
        /\ call[p].state.status = "executing"

\* C5: when a durable-tier write raises, the calling operation fails; when a
\* fast-tier write raises, the operation still succeeds and the durable-tier
\* write is performed.
C5_FastWriteFailureIsSwallowed ==
    \A p \in Procs :
        /\ call[p].fault = "durable_write" => call[p].code = "500"
        /\ (call[p].fault = "fast_write" /\ call[p].pc = "idle") =>
               call[p].code = "200" /\ "durable" \in call[p].wrote

\* C6: once a start or continue has answered 200 with state s for a workflow
\* id, get(id) answers s, while the cache entry lives and after it has expired.
C6_CheckpointRoundTrip ==
    \A p \in Procs :
        Persisted(p) =>
            GetReply(fast, durable, call[p].wid, now) = {call[p].state}

\* C7: once two overlapping continue calls on one workflow have both answered
\* 200, the durable record holds the state and the updated_at of the call that
\* read the greater updated_at.
C7_LastWriterWins ==
    (\A p \in Procs : Persisted(p) /\ call[p].kind = "resume") =>
        \E p \in Procs :
            /\ \A q \in Procs : call[q].stamp <= call[p].stamp
            /\ durable[1].updated_at = call[p].stamp
            /\ durable[1].state = call[p].state

\* C8 as stated: a start or continue call aborted at any point before it
\* completes has written to neither tier.
C8_AbortLeavesNoTrace ==
    \A p \in Procs :
        (call[p].kind \in {"start", "resume"} /\ call[p].code = "aborted")
            => call[p].wrote = {}

\* C8 as amended: while a start or continue call is inside its graph pass (from
\* its first step to the return of the execute node), the durable tier does not
\* change and the fast tier gains or changes no entry, so a call aborted there
\* leaves the store as if it had never started.
C8_PassLeavesStoreAlone ==
    [][(\E p \in Procs :
           /\ call[p].kind \in {"start", "resume"} \/ call[p].pc = "idle"
           /\ call'[p].kind \in {"start", "resume"}
           /\ call[p].pc \in StagePcs \/ call'[p].pc \in StagePcs)
          => durable' = durable /\ fast' \subseteq fast]_vars

C8_Witness ==
    \E p \in Procs :
        /\ call[p].kind \in {"start", "resume"}
        /\ call[p].code = "aborted"
        /\ call[p].at \in StagePcs
        /\ fast = {} /\ durable = <<>>

\* C9: a continue call on a workflow id with no durable record answers 404 (or
\* 500 when the lookup itself raised), runs no node, and leaves both tiers as
\* they were.
C9_ResumeUnknownChangesNothing ==
    [][\A p \in Procs :
          (/\ call[p].pc = "idle"
           /\ call'[p] # call[p]
           /\ call'[p].kind = "resume"
           /\ FindOne(durable, call'[p].wid) = {})
              => /\ call'[p].pc = "idle"
                 /\ call'[p].ran = <<>>
                 /\ \/ call'[p].code = "404"
                    \/ call'[p].code = "500" /\ call'[p].fault = "durable_read"
                 /\ fast' = fast
                 /\ durable' = durable]_vars

C9_Witness ==
    \E p \in Procs :
        /\ call[p].kind = "resume"
        /\ call[p].code = "404"
        /\ call[p].pc = "idle"

\* The Analyzer raised in the pass of the start request in slot p.
AnalyzerFailedInStart(p) ==
    /\ call[p].kind = "start"
    /\ call[p].state.errors # <<>>
    /\ call[p].state.errors[1] = "Analysis failed: e"

AssignedTask(i) == [id |-> i, status |-> "assigned", assigned_agent |-> {i}]

TasksAfterPass ==
    [i \in 1..5 |-> IF i <= 2 THEN AssignedTask(i) ELSE NewTask(i)]

\* C11: when the analyzer and the planner both succeed, one start pass takes
\* the status draft -> analyzed -> planned -> executing, fills
\* context.analysis, and ends with exactly five tasks: the first two assigned
\* to agent_1 and agent_2, the other three pending with no assigned agent.
C11_StartHappyPath ==
    \A p \in Procs :
        (call[p].kind = "start" /\ call[p].state.errors = <<>>) =>
            /\ call[p].pc = "analyze" => call[p].state.status = "draft"
            /\ call[p].pc = "plan" =>
                  /\ call[p].state.status = "analyzed"
                  /\ call[p].state.context.analysis # {}
            /\ call[p].pc = "execute" =>
                  /\ call[p].state.status = "planned"
                  /\ call[p].state.tasks = [i \in 1..5 |-> NewTask(i)]
            /\ (call[p].ran = Nodes /\ (call[p].pc # "idle" \/ call[p].code = "200")) =>
                  /\ call[p].state.status = "executing"
                  /\ call[p].state.context.analysis # {}
                  /\ call[p].state.tasks = TasksAfterPass

C11_Witness ==
    \E p \in Procs :
        /\ Persisted(p)
        /\ call[p].kind = "start"
        /\ call[p].state.errors = <<>>
        /\ call[p].state.status = "executing"
        /\ Len(call[p].state.tasks) = 5
        /\ call[p].state.tasks[2].assigned_agent = {2}

\* How many documents of the collection are newer than d; how many are not
\* older than d.
Newer(coll, d) ==
    Cardinality({i \in 1..Len(coll) : coll[i].created_at > d.created_at})

NotOlder(coll, d) ==
    Cardinality({i \in 1..Len(coll) : coll[i].created_at >= d.created_at})

\* How many times document d occurs in the sequence w.
Copies(w, d) == Cardinality({k \in 1..Len(w) : w[k] = d})

\* C12: list(offset, limit) answers from the durable tier alone: at most
\* limit records, documents of the collection in created_at descending order
\* starting at position offset of that order, and total is the number of all
\* durable records.
C12_ListPage ==
    \A p \in Procs :
        (call[p].kind = "list" /\ call[p].code = "200") =>
            LET w == call[p].page.workflows
                off == call[p].page.offset
                lim == call[p].page.limit
                n == Len(durable)
            IN /\ Len(w) <= lim
               /\ Len(w) = IF n - off < 0 THEN 0 ELSE Min(lim, n - off)
               /\ \A k \in 1..(Len(w) - 1) :
                      w[k].created_at >= w[k + 1].created_at
               /\ \A k \in 1..Len(w) :
                      /\ Newer(durable, w[k]) <= off + k - 1
                      /\ NotOlder(durable, w[k]) >= off + k
                      /\ Copies(w, w[k]) <= Copies(durable, w[k])
               /\ call[p].page.total = n

C12_Witness ==
    \E p \in Procs :
        /\ call[p].kind = "list"
        /\ call[p].code = "200"
        /\ call[p].page.offset = 1
        /\ call[p].page.limit = 1
        /\ Len(call[p].page.workflows) = 1
        /\ Len(durable) = 3
        /\ durable[1].created_at < durable[2].created_at
        /\ call[p].page.workflows[1] = durable[3]
        /\ fast # {}

\* C13: once a node of a pass has left the status "failed", every later node
\* of that pass returns the state unchanged, so the pass ends with the state
\* the failing node returned.
C13_FailFastWithinPass ==
    [][\A p \in Procs :
          (NodeStep(p) /\ call[p].ran # <<>> /\ call[p].state.status = "failed")
              => call'[p].state = call[p].state]_vars

C13_Witness ==
    \E p \in Procs :
        /\ call[p].kind = "start"
        /\ call[p].pc = "setex"
        /\ call[p].ran = Nodes
        /\ call[p].state.status = "failed"
        /\ call[p].state.errors = <<"Analysis failed: e">>
        /\ call[p].state.tasks = <<>>

\* C14: no two durable records share a workflow_id: every start_workflow
\* generates an id different from that of every existing checkpoint, two
\* starts for the same project_id in the same clock second included.
C14_WorkflowIdsUnique ==
    \A i, j \in 1..Len(durable) :
        i # j => durable[i].workflow_id # durable[j].workflow_id

\* Positions at which the task lists a and b differ.
Changed(a, b) == {i \in 1..Len(a) : b[i] # a[i]}

Pending(a) == {i \in 1..Len(a) : a[i].status = "pending"}

\* C15: on a state that is not failed, with any task list, one execute_tasks
\* call changes at most 2 tasks, only pending ones and the first ones in list
\* order; the j-th changed (j from 0) becomes assigned to agent (j mod 3) + 1;
\* context.execution records tasks_assigned = the number changed and
\* agents_used = min(3, tasks_assigned); every other task is unchanged.
C15_ExecuteBatchBound ==
    [][\A p \in Procs :
          (NodeStep(p) /\ call[p].pc = "execute"
                       /\ call[p].state.status # "failed") =>
              LET a == call[p].state.tasks
                  b == call'[p].state.tasks
                  ch == Changed(a, b)
              IN /\ Len(b) = Len(a)
                 /\ Cardinality(ch) <= 2
                 /\ Cardinality(ch) = Min(2, Cardinality(Pending(a)))
                 /\ ch \subseteq Pending(a)
                 /\ \A i \in ch : \A k \in Pending(a) : k < i => k \in ch
                 /\ \A i \in ch :
                        LET j == Cardinality({k \in ch : k < i})
                        IN b[i] = [a[i] EXCEPT !.status = "assigned",
                                               !.assigned_agent = {(j % 3) + 1}]
                 /\ \E e \in call'[p].state.context.execution :
                        /\ e.tasks_assigned = Cardinality(ch)
                        /\ e.agents_used = Min(3, Cardinality(ch))]_vars

C15_Witness ==
    \E p \in Procs :
        /\ call[p].pc = "update"
        /\ call[p].ran = Nodes
        /\ Len(call[p].state.tasks) = 4
        /\ call[p].state.tasks[1].status = "completed"
        /\ call[p].state.tasks[2] = [id |-> 2, status |-> "assigned", assigned_agent |-> {1}]
        /\ call[p].state.tasks[3] = [id |-> 3, status |-> "assigned", assigned_agent |-> {2}]
        /\ call[p].state.tasks[4].status = "pending"
        /\ \E e \in call[p].state.context.execution : e.tasks_assigned = 2

\* Slot p's get_workflow_status is received; it takes its second step.
GetReceived(p) ==
    call[p].pc = "idle" /\ calls' # calls /\ call'[p].kind = "get"

GetFound(p) ==
    call[p].pc = "find" /\ call'[p].pc = "idle" /\ call'[p].code # "aborted"

\* C16: get is read-only and tier-ordered: it answers the cache's value when
\* the cache holds an unexpired entry, else the state of the durable record,
\* else not-found, and it leaves both tiers as they were (a hit in the
\* durable tier does not put the entry back in the cache).
C16_GetReadOnlyTierOrdered ==
    [][\A p \in Procs :
          /\ (GetReceived(p) \/ (call[p].pc = "find" /\ call'[p] # call[p])) =>
                 fast' = fast /\ durable' = durable
          /\ GetReceived(p) =>
                 LET hit == RedisGet(fast, call'[p].wid, now)
                 IN \/ call'[p].code = "500" /\ call'[p].fault = "fast_read"
                    \/ /\ hit # {}
                       /\ call'[p].code = "200"
                       /\ call'[p].state \in {JsonLoads(v) : v \in hit}
                    \/ hit = {} /\ call'[p].pc = "find"
          /\ GetFound(p) =>
                 LET docs == FindOne(durable, call[p].wid)
                 IN \/ call'[p].code = "500" /\ call'[p].fault = "durable_read"
                    \/ /\ docs # {}
                       /\ call'[p].code = "200"
                       /\ call'[p].state \in {d.state : d \in docs}
                    \/ docs = {} /\ call'[p].code = "404"]_vars

\* A get answered from the durable tier, the cache still without the entry.
C16_Witness ==
    \E p \in Procs :
        /\ call[p].kind = "get"
        /\ call[p].code = "200"
        /\ call[p].at = "find"
        /\ Matching(durable, call[p].wid) # {}
        /\ RedisGet(fast, call[p].wid, now) = {}

IsPrefix(s, t) == Len(s) <= Len(t) /\ SubSeq(t, 1, Len(s)) = s

\* C17: errors is append-only over the life of a workflow: a continue call
\* takes up the errors of a persisted state, every step of a start or continue
\* call leaves the errors it had as a prefix of those it has, and what the
\* call persists is the state it ended with.
C17_ErrorsAppendOnly ==
    [][\A p \in Procs :
          /\ (call[p].pc # "idle" /\ (call'[p].pc # "idle" \/ call'[p].code = "200")) =>
                 IsPrefix(call[p].state.errors, call'[p].state.errors)
          /\ (call[p].pc = "idle" /\ call'[p].pc = "analyze"
                                  /\ call'[p].kind = "resume") =>
                 \E d \in FindOne(durable, call'[p].wid) :
                     call'[p].state.errors = d.state.errors
          /\ (call[p].pc \in {"insert", "apply"} /\ durable' # durable) =>
                 \E i \in 1..Len(durable') :
                     /\ durable'[i].workflow_id = call[p].wid
                     /\ durable'[i].state.errors = call[p].state.errors]_vars

\* A continue call has added a second error to the one the start recorded.
C17_Witness ==
    \E p \in Procs :
        /\ Persisted(p)
        /\ call[p].kind = "resume"
        /\ Len(call[p].state.errors) = 2
        /\ \E i \in Matching(durable, call[p].wid) :
               durable[i].state.errors = call[p].state.errors

\* C18: the update of a continue call changes only the state and updated_at
\* of a durable record with the call's workflow_id: its workflow_id,
\* project_id and created_at stay, updated_at takes the call's clock reading,
\* the number of records stays, and every record with another workflow_id is
\* untouched; no other step of the call writes the durable tier.
C18_ResumeTouchesOneRecord ==
    [][\A p \in Procs :
          /\ (call[p].kind = "resume" /\ call[p].pc # "apply"
                                      /\ call'[p].kind = "resume") =>
                 durable' = durable
          /\ (call[p].pc = "apply" /\ call'[p].pc = "rsetex") =>
                 /\ Len(durable') = Len(durable)
                 /\ \A i \in 1..Len(durable) :
                        durable'[i] # durable[i] =>
                            /\ durable[i].workflow_id = call[p].wid
                            /\ durable'[i].workflow_id = durable[i].workflow_id
                            /\ durable'[i].project_id = durable[i].project_id
                            /\ durable'[i].created_at = durable[i].created_at
                 /\ \E i \in Matching(durable, call[p].wid) :
                        /\ durable'[i].state = call[p].state
                        /\ durable'[i].updated_at = call[p].stamp
                        /\ durable'[i].updated_at >= durable[i].updated_at
                        /\ \A j \in 1..Len(durable) :
                               j # i => durable'[j] = durable[j]]_vars

\* A continue call has returned, its record refreshed, next to a record of
\* another workflow that still is as its start left it.
C18_Witness ==
    \E p \in Procs :
        /\ Persisted(p)
        /\ call[p].kind = "resume"
        /\ \E i \in Matching(durable, call[p].wid) :
               /\ durable[i].state = call[p].state
               /\ durable[i].updated_at > durable[i].created_at
        /\ \E j \in 1..Len(durable) :
               /\ durable[j].workflow_id # call[p].wid
               /\ durable[j].updated_at = durable[j].created_at

\* C19: whenever no start or continue call is in progress, every unexpired
\* cache entry equals the state of a durable record with the same
\* workflow_id, and no cache entry is without a durable record, also after
\* calls in which one of the two writes failed.
C19_TiersAgree ==
    NoneRunning =>
        \A e \in Alive(fast, now) :
            \E d \in FindOne(durable, e.key) : d.state = JsonLoads(e.value)

Assigned(tasks) == {k \in 1..Len(tasks) : tasks[k].status = "assigned"}

====
